---- MODULE Spec2Model ----
(***************************************************************************)
(* coinaddr.validation: the validator registry, the Base58Check and        *)
(* Ethereum validators, and the request/result flow of validate().         *)
(*                                                                         *)
(* Addresses and decoded data are sequences of byte values (0..255), so an *)
(* address is the sequence of the ASCII codes of its characters.  SHA-256  *)
(* and Keccak-256 are computed bit-exactly; the big integers of the        *)
(* base-58 codec are kept as base-256 digit sequences.                     *)
(***************************************************************************)
EXTENDS Integers, Sequences, FiniteSets, TLC

VARIABLES
  validators,   \* Validators.validators: algorithm name -> validator class
  currencies,   \* the currency catalog: currency name -> Currency record
  threads,      \* class definitions in progress, one per thread
  seen,         \* per algorithm name, the class the first lookup returned
  pc,           \* position of the current validation call
  request,      \* the ValidationRequest under execution
  result,       \* outcome of the call: a ValidationResult or a raised error
  input         \* how the address under validation was produced

vars == <<validators, currencies, threads, seen, pc, request, result, input>>


(***************************************************************************)
(* Bit operations on bytes and on 16-bit limbs                             *)
(***************************************************************************)
RECURSIVE XorBits(_, _, _)
XorBits(a, b, n) ==
  IF n = 0 THEN 0 ELSE ((a + b) % 2) + 2 * XorBits(a \div 2, b \div 2, n - 1)

RECURSIVE AndBits(_, _, _)
AndBits(a, b, n) ==
  IF n = 0 THEN 0 ELSE ((a % 2) * (b % 2)) + 2 * AndBits(a \div 2, b \div 2, n - 1)

\* a ^ b and a & b of two bytes, tabulated
XorTab ==
  SubSeq([a \in 1..256 |-> SubSeq([b \in 1..256 |-> XorBits(a - 1, b - 1, 8)], 1, 256)], 1, 256)

AndTab ==
  SubSeq([a \in 1..256 |-> SubSeq([b \in 1..256 |-> AndBits(a - 1, b - 1, 8)], 1, 256)], 1, 256)

\* Pow2[n + 1] = 2^n
Pow2 == <<1, 2, 4, 8, 16, 32, 64, 128, 256, 512, 1024, 2048, 4096, 8192, 16384, 32768, 65536>>

Xor16(a, b) ==
  256 * XorTab[(a \div 256) + 1][(b \div 256) + 1] + XorTab[(a % 256) + 1][(b % 256) + 1]
And16(a, b) ==
  256 * AndTab[(a \div 256) + 1][(b \div 256) + 1] + AndTab[(a % 256) + 1][(b % 256) + 1]

Zeros(n) == SubSeq([i \in 1..n |-> 0], 1, n)

(***************************************************************************)
(* hashlib.sha256 (FIPS 180-4).  A 32-bit word is <<high 16 bits, low 16   *)
(* bits>>.                                                                 *)
(***************************************************************************)
WXor(a, b) == <<Xor16(a[1], b[1]), Xor16(a[2], b[2])>>
WAnd(a, b) == <<And16(a[1], b[1]), And16(a[2], b[2])>>
WNot(a) == <<65535 - a[1], 65535 - a[2]>>

\* the word of a sum of high halves and a sum of low halves, modulo 2^32
WNorm(hi, lo) == <<(hi + (lo \div 65536)) % 65536, lo % 65536>>
WAdd(a, b) == WNorm(a[1] + b[1], a[2] + b[2])
WAdd4(a, b, c, d) == WNorm(a[1] + b[1] + c[1] + d[1], a[2] + b[2] + c[2] + d[2])
WAdd5(a, b, c, d, e) ==
  WNorm(a[1] + b[1] + c[1] + d[1] + e[1], a[2] + b[2] + c[2] + d[2] + e[2])

\* rotate and shift right by n < 16 bits of the word <<hi, lo>>
Rot16(hi, lo, n) ==
  <<(hi \div Pow2[n + 1]) + (lo % Pow2[n + 1]) * Pow2[17 - n],
    (lo \div Pow2[n + 1]) + (hi % Pow2[n + 1]) * Pow2[17 - n]>>
RotR(w, n) == IF n < 16 THEN Rot16(w[1], w[2], n) ELSE Rot16(w[2], w[1], n - 16)
ShR(w, n) ==
  <<w[1] \div Pow2[n + 1], (w[2] \div Pow2[n + 1]) + (w[1] % Pow2[n + 1]) * Pow2[17 - n]>>

SHA256_K ==
  <<
    <<17034, 12184>>, <<28983, 17553>>, <<46528, 64463>>, <<59829, 56229>>,
    <<14678, 49755>>, <<23025, 4593>>, <<37439, 33444>>, <<43804, 24277>>,
    <<55303, 43672>>, <<4739, 23297>>, <<9265, 34238>>, <<21772, 32195>>,
    <<29374, 23924>>, <<32990, 45566>>, <<39900, 1703>>, <<49563, 61812>>,
    <<58523, 27073>>, <<61374, 18310>>, <<4033, 40390>>, <<9228, 41420>>,
    <<11753, 11375>>, <<19060, 33962>>, <<23728, 43484>>, <<30457, 35034>>,
    <<38974, 20818>>, <<43057, 50797>>, <<45059, 10184>>, <<48985, 32711>>,
    <<50912, 3059>>, <<54695, 37191>>, <<1738, 25425>>, <<5161, 10599>>,
    <<10167, 2693>>, <<11803, 8504>>, <<19756, 28156>>, <<21304, 3347>>,
    <<25866, 29524>>, <<30314, 2747>>, <<33218, 51502>>, <<37490, 11397>>,
    <<41663, 59553>>, <<43034, 26187>>, <<49739, 35696>>, <<51052, 20899>>,
    <<53650, 59417>>, <<54937, 1572>>, <<62478, 13701>>, <<4202, 41072>>,
    <<6564, 49430>>, <<7735, 27656>>, <<10056, 30540>>, <<13488, 48309>>,
    <<14620, 3251>>, <<20184, 43594>>, <<23452, 51791>>, <<26670, 28659>>,
    <<29839, 33518>>, <<30885, 25455>>, <<33992, 30740>>, <<36039, 520>>,
    <<37054, 65530>>, <<42064, 27883>>, <<48889, 41975>>, <<50801, 30962>> >>

SHA256_H0 ==
  <<
    <<27145, 58983>>, <<47975, 44677>>, <<15470, 62322>>, <<42319, 62778>>,
    <<20750, 21119>>, <<39685, 26764>>, <<8067, 55723>>, <<23520, 52505>> >>

\* big-endian bytes of n, exactly k of them
RECURSIVE BigEndian(_, _)
BigEndian(n, k) == IF k = 0 THEN <<>> ELSE Append(BigEndian(n \div 256, k - 1), n % 256)

\* the message, 0x80, zeros, and the bit length on 8 bytes: a multiple of 64 bytes
Sha256Pad(m) == m \o <<128>> \o Zeros((55 - Len(m)) % 64) \o BigEndian(Len(m) * 8, 8)

SmallSigma0(w) == WXor(WXor(RotR(w, 7), RotR(w, 18)), ShR(w, 3))
SmallSigma1(w) == WXor(WXor(RotR(w, 17), RotR(w, 19)), ShR(w, 10))
BigSigma0(w) == WXor(WXor(RotR(w, 2), RotR(w, 13)), RotR(w, 22))
BigSigma1(w) == WXor(WXor(RotR(w, 6), RotR(w, 11)), RotR(w, 25))
Ch(e, f, g) == WXor(WAnd(e, f), WAnd(WNot(e), g))
Maj(a, b, c) == WXor(WXor(WAnd(a, b), WAnd(a, c)), WAnd(b, c))

\* the 64-word message schedule, grown from the 16 words of the block
RECURSIVE Sha256Schedule(_)
Sha256Schedule(w) ==
  IF Len(w) >= 64 THEN w
  ELSE Sha256Schedule(Append(w, WAdd4(w[Len(w) - 15], SmallSigma0(w[Len(w) - 14]),
                                      w[Len(w) - 6], SmallSigma1(w[Len(w) - 1]))))

Sha256T1(s, k, w) == WAdd5(s[8], BigSigma1(s[5]), Ch(s[5], s[6], s[7]), k, w)
Sha256T2(s) == WAdd(BigSigma0(s[1]), Maj(s[1], s[2], s[3]))
Sha256Step(s, t1, t2) ==
  <<WAdd(t1, t2), s[1], s[2], s[3], WAdd(s[4], t1), s[5], s[6], s[7]>>

\* rounds i..64 on the working variables s = <<a, b, c, d, e, f, g, h>>
RECURSIVE Sha256Rounds(_, _, _)
Sha256Rounds(s, w, i) ==
  IF i > 64 \/ Len(s) # 8 THEN s
  ELSE Sha256Rounds(Sha256Step(s, Sha256T1(s, SHA256_K[i], w[i]), Sha256T2(s)), w, i + 1)

Sha256AddState(h, s) ==
  <<WAdd(h[1], s[1]), WAdd(h[2], s[2]), WAdd(h[3], s[3]), WAdd(h[4], s[4]),
    WAdd(h[5], s[5]), WAdd(h[6], s[6]), WAdd(h[7], s[7]), WAdd(h[8], s[8])>>

\* the 16 big-endian words of a 64-byte block
BlockWords(block) ==
  SubSeq([i \in 1..16 |-> <<256 * block[4 * i - 3] + block[4 * i - 2],
                            256 * block[4 * i - 1] + block[4 * i]>>], 1, 16)

Sha256Compress(h, block) ==
  Sha256AddState(h, Sha256Rounds(h, Sha256Schedule(BlockWords(block)), 1))

RECURSIVE Sha256Blocks(_, _)
Sha256Blocks(h, p) ==
  IF Len(p) = 0 \/ Len(h) # 8 THEN h
  ELSE Sha256Blocks(Sha256Compress(h, SubSeq(p, 1, 64)), SubSeq(p, 65, Len(p)))

\* digest(): the 8 state words as 32 big-endian bytes
WordBytes(h) ==
  SubSeq([i \in 1..32 |->
    LET half == h[(i + 3) \div 4][(((i - 1) % 4) \div 2) + 1]
    IN IF i % 2 = 1 THEN half \div 256 ELSE half % 256], 1, 32)

sha256(m) == WordBytes(Sha256Blocks(SHA256_H0, Sha256Pad(m)))

(***************************************************************************)
(* sha3.keccak_256 (Keccak-f[1600], rate 136, padding 0x01).  A lane is    *)
(* four 16-bit limbs, least significant first; lane (x, y) is at           *)
(* x + 5y + 1.                                                             *)
(***************************************************************************)
KeccakRC ==
  <<
    <<1, 0, 0, 0>>, <<32898, 0, 0, 0>>, <<32906, 0, 0, 32768>>,
    <<32768, 32768, 0, 32768>>, <<32907, 0, 0, 0>>, <<1, 32768, 0, 0>>,
    <<32897, 32768, 0, 32768>>, <<32777, 0, 0, 32768>>, <<138, 0, 0, 0>>,
    <<136, 0, 0, 0>>, <<32777, 32768, 0, 0>>, <<10, 32768, 0, 0>>,
    <<32907, 32768, 0, 0>>, <<139, 0, 0, 32768>>, <<32905, 0, 0, 32768>>,
    <<32771, 0, 0, 32768>>, <<32770, 0, 0, 32768>>, <<128, 0, 0, 32768>>,
    <<32778, 0, 0, 0>>, <<10, 32768, 0, 32768>>, <<32897, 32768, 0, 32768>>,
    <<32896, 0, 0, 32768>>, <<1, 32768, 0, 0>>, <<32776, 32768, 0, 32768>> >>

\* rotation offsets, indexed like the lanes
KeccakRot ==
  <<0, 1, 62, 28, 27, 36, 44, 6, 55, 20, 3, 10, 43, 25, 39, 41, 45, 15, 21, 8, 18, 2, 61,
    56, 14>>

LXor(a, b) == <<Xor16(a[1], b[1]), Xor16(a[2], b[2]), Xor16(a[3], b[3]), Xor16(a[4], b[4])>>
\* (~a) & b
LAndNot(a, b) ==
  <<And16(65535 - a[1], b[1]), And16(65535 - a[2], b[2]),
    And16(65535 - a[3], b[3]), And16(65535 - a[4], b[4])>>

\* limb i of the lane a rotated left by 16q + s bits
RotLLimb(a, q, s, i) ==
  (a[((i - 1 - q + 8) % 4) + 1] % Pow2[17 - s]) * Pow2[s + 1]
    + (a[((i - 2 - q + 8) % 4) + 1] \div Pow2[17 - s])
RotLBy(a, q, s) ==
  <<RotLLimb(a, q, s, 1), RotLLimb(a, q, s, 2), RotLLimb(a, q, s, 3), RotLLimb(a, q, s, 4)>>
RotL(a, n) == RotLBy(a, n \div 16, n % 16)

\* C[x] = A[x,0] ^ A[x,1] ^ A[x,2] ^ A[x,3] ^ A[x,4]
KeccakColumns(A) ==
  SubSeq([x \in 1..5 |->
    LXor(LXor(LXor(A[x], A[x + 5]), LXor(A[x + 10], A[x + 15])), A[x + 20])], 1, 5)
\* D[x] = C[x-1] ^ rot(C[x+1], 1)
KeccakD(C) ==
  SubSeq([x \in 1..5 |-> LXor(C[((x + 3) % 5) + 1], RotL(C[(x % 5) + 1], 1))], 1, 5)
KeccakXorD(A, D) == SubSeq([i \in 1..25 |-> LXor(A[i], D[((i - 1) % 5) + 1])], 1, 25)
KeccakTheta(A) == KeccakXorD(A, KeccakD(KeccakColumns(A)))

\* B[y, 2x + 3y] = rot(A[x, y], r[x, y]); read backwards, lane (X, Y) of B comes
\* from lane (x, y) of A with y = X and x = (X + 3Y) mod 5
RhoPiSource(i) == ((((i - 1) % 5) + 3 * ((i - 1) \div 5)) % 5) + 5 * ((i - 1) % 5) + 1
KeccakRhoPi(A) ==
  SubSeq([i \in 1..25 |-> RotL(A[RhoPiSource(i)], KeccakRot[RhoPiSource(i)])], 1, 25)

\* A[x, y] = B[x, y] ^ (~B[x+1, y] & B[x+2, y])
KeccakChi(B) ==
  SubSeq([i \in 1..25 |->
    LXor(B[i], LAndNot(B[((i - 1) \div 5) * 5 + (i % 5) + 1],
                       B[((i - 1) \div 5) * 5 + ((i + 1) % 5) + 1]))], 1, 25)

KeccakIota(A, rnd) == <<LXor(A[1], KeccakRC[rnd])>> \o SubSeq(A, 2, 25)

KeccakRound(A, rnd) == KeccakIota(KeccakChi(KeccakRhoPi(KeccakTheta(A))), rnd)

\* rounds rnd..24 of the permutation
RECURSIVE KeccakF(_, _)
KeccakF(A, rnd) ==
  IF rnd > 24 \/ Len(A) # 25 THEN A ELSE KeccakF(KeccakRound(A, rnd), rnd + 1)

\* pad10*1 with the Keccak domain bits: 0x01 ... 0x80, to a multiple of 136 bytes
KeccakPad(m) ==
  IF Len(m) % 136 = 135 THEN m \o <<129>>
  ELSE m \o <<1>> \o Zeros(134 - (Len(m) % 136)) \o <<128>>

\* the 17 lanes of a 136-byte block
BlockLane(blk, i) ==
  <<blk[8 * i - 7] + 256 * blk[8 * i - 6], blk[8 * i - 5] + 256 * blk[8 * i - 4],
    blk[8 * i - 3] + 256 * blk[8 * i - 2], blk[8 * i - 1] + 256 * blk[8 * i]>>
KeccakAbsorbBlock(A, blk) ==
  SubSeq([i \in 1..25 |-> IF i <= 17 THEN LXor(A[i], BlockLane(blk, i)) ELSE A[i]], 1, 25)

RECURSIVE KeccakAbsorb(_, _)
KeccakAbsorb(A, p) ==
  IF Len(p) = 0 \/ Len(A) # 25 THEN A
  ELSE KeccakAbsorb(KeccakF(KeccakAbsorbBlock(A, SubSeq(p, 1, 136)), 1),
                    SubSeq(p, 137, Len(p)))

\* digest(): the first 32 bytes of the state
LaneBytes(A) ==
  SubSeq([i \in 1..32 |->
    LET limb == A[((i - 1) \div 8) + 1][(((i - 1) % 8) \div 2) + 1]
    IN IF i % 2 = 1 THEN limb % 256 ELSE limb \div 256], 1, 32)

keccak_256(m) ==
  LaneBytes(KeccakAbsorb(SubSeq([i \in 1..25 |-> <<0, 0, 0, 0>>], 1, 25), KeccakPad(m)))
(***************************************************************************)
(* base58check.b58decode / b58encode                                       *)
(* The codec's Python integer is held as its base-256 digits, most         *)
(* significant first, without leading zeros (<<>> is 0).                   *)
(***************************************************************************)
\* b'123456789ABCDEFGHJKLMNPQRSTUVWXYZabcdefghijkmnopqrstuvwxyz'
DEFAULT_CHARSET ==
  <<49, 50, 51, 52, 53, 54, 55, 56, 57, 65, 66, 67, 68, 69, 70, 71, 72, 74,
    75, 76, 77, 78, 80, 81, 82, 83, 84, 85, 86, 87, 88, 89, 90, 97, 98, 99,
    100, 101, 102, 103, 104, 105, 106, 107, 109, 110, 111, 112, 113, 114,
    115, 116, 117, 118, 119, 120, 121, 122>>

\* b'rpshnaf39wBUDNEGHJKLM4PQRST7VWXYZ2bcdeCg65jkm8oFqi1tuvAxyz'
RIPPLE_CHARSET ==
  <<114, 112, 115, 104, 110, 97, 102, 51, 57, 119, 66, 85, 68, 78, 69, 71,
    72, 74, 75, 76, 77, 52, 80, 81, 82, 83, 84, 55, 86, 87, 88, 89, 90, 50,
    98, 99, 100, 101, 67, 103, 54, 53, 106, 107, 109, 56, 111, 70, 113,
    105, 49, 116, 117, 118, 65, 120, 121, 122>>

\* charset.index(char): the 0-based position, or -1 where Python raises ValueError
IndexOf(charset, char) ==
  IF \E k \in 1..Len(charset) : charset[k] = char
  THEN (CHOOSE k \in 1..Len(charset) :
          charset[k] = char /\ \A j \in 1..(k - 1) : charset[j] # char) - 1
  ELSE -1

\* bytes.lstrip(bytes([c]))
RECURSIVE LStripByte(_, _)
LStripByte(val, c) ==
  IF Len(val) > 0 /\ val[1] = c THEN LStripByte(Tail(val), c) ELSE val

\* digits of num * m + a, least significant digit first, from the reversed digits of num
RECURSIVE MulAddRev(_, _, _)
MulAddRev(rev, m, carry) ==
  IF Len(rev) = 0
  THEN IF carry = 0 THEN <<>> ELSE <<carry % 256>> \o MulAddRev(<<>>, m, carry \div 256)
  ELSE LET t == rev[1] * m + carry
       IN <<t % 256>> \o MulAddRev(Tail(rev), m, t \div 256)

RECURSIVE Reverse(_)
Reverse(s) == IF Len(s) = 0 THEN <<>> ELSE Append(Reverse(Tail(s)), s[1])

\* output * base + digit
MulAdd(num, m, a) == Reverse(MulAddRev(Reverse(num), m, a))

\* _b58decode_int: output = output * base + charset.index(char), char by char
RECURSIVE B58DecodeInt(_, _, _)
B58DecodeInt(val, charset, output) ==
  IF Len(val) = 0 THEN output
  ELSE LET next == MulAdd(output, Len(charset), IndexOf(charset, val[1]))
       IN IF Len(next) >= 0 THEN B58DecodeInt(Tail(val), charset, next) ELSE next

\* The decoded bytes, or the error b58decode raises
b58decode(val, charset) ==
  LET stripped == LStripByte(val, charset[1])
      pad_len == Len(val) - Len(stripped)
  IN IF Len(charset) # 58 THEN [ok |-> FALSE, error |-> "ValueError", bytes |-> <<>>]
     ELSE IF \E k \in 1..Len(stripped) : IndexOf(charset, stripped[k]) < 0
     THEN [ok |-> FALSE, error |-> "ValueError", bytes |-> <<>>]
     ELSE [ok |-> TRUE, error |-> "",
           bytes |-> Zeros(pad_len) \o B58DecodeInt(stripped, charset, <<>>)]

\* divmod(num, m): <<quotient digits (leading zeros kept), remainder>>
RECURSIVE DivModDigits(_, _, _)
DivModDigits(num, m, rem) ==
  IF Len(num) = 0 THEN <<<<>>, rem>>
  ELSE LET t == rem * 256 + num[1]
           rest == DivModDigits(Tail(num), m, t % m)
       IN <<<<t \div m>> \o rest[1], rest[2]>>

\* _b58encode_int(int_, default=False): while int_: int_, idx = divmod(int_, base)
RECURSIVE B58EncodeInt(_, _)
B58EncodeInt(num, charset) ==
  IF Len(num) = 0 THEN <<>>
  ELSE LET dm == DivModDigits(num, Len(charset), 0)
       IN Append(B58EncodeInt(LStripByte(dm[1], 0), charset), charset[dm[2] + 1])

b58encode(val, charset) ==
  LET stripped == LStripByte(val, 0)
      pad_len == Len(val) - Len(stripped)
  IN [i \in 1..pad_len |-> charset[1]] \o B58EncodeInt(stripped, charset)

(***************************************************************************)
(* ASCII text                                                              *)
(***************************************************************************)
Digits == 48..57
LowerHex == Digits \cup 97..102       \* [0-9a-f]
UpperHex == Digits \cup 65..70        \* [0-9A-F]

\* str.lower() / str.upper() on one character, given as its code point.
\* U+212A (KELVIN SIGN) is the one character outside ASCII whose lower() is
\* an ASCII character ('k'); it is its own upper().  The other characters
\* outside ASCII are left as they are: their lower() is outside ASCII as
\* well, and encode('ascii') raises on it before the case is ever compared.
KelvinSign == 8490
LowerChar(c) == IF c \in 65..90 THEN c + 32 ELSE IF c = KelvinSign THEN 107 ELSE c
UpperChar(c) == IF c \in 97..122 THEN c - 32 ELSE c
Lower(s) == SubSeq([i \in 1..Len(s) |-> LowerChar(s[i])], 1, Len(s))

\* str.lstrip(chars): drop leading characters that belong to chars
RECURSIVE LStripChars(_, _)
LStripChars(s, chars) ==
  IF Len(s) > 0 /\ s[1] \in chars THEN LStripChars(Tail(s), chars) ELSE s

\* hexdigest(): two lowercase hex characters per byte, high nibble first
HexChar(n) == IF n < 10 THEN 48 + n ELSE 87 + n
HexDigest(bytes) ==
  SubSeq([i \in 1..(2 * Len(bytes)) |->
    LET b == bytes[(i + 1) \div 2]
    IN HexChar(IF i % 2 = 1 THEN b \div 16 ELSE b % 16)], 1, 2 * Len(bytes))

\* int(ch, 16)
HexValue(ch) ==
  IF ch \in Digits THEN ch - 48
  ELSE IF ch \in 97..102 THEN ch - 87
  ELSE ch - 55

(***************************************************************************)
(* Outcome of a call: a returned value or a raised exception               *)
(***************************************************************************)
Return(v) == [kind |-> "return", value |-> v, error |-> ""]
Raise(e) == [kind |-> "raise", value |-> FALSE, error |-> e]
NoOutcome == [kind |-> "none", value |-> FALSE, error |-> ""]

(***************************************************************************)
(* ValidationRequest: extras and networks                                  *)
(***************************************************************************)
\* extras: the charset override when the currency has one; the codec's
\* default charset applies otherwise
ValidationRequest_extras(req) ==
  IF Len(req.currency.charset) > 0 THEN req.currency.charset ELSE DEFAULT_CHARSET

\* functools.reduce(operator.concat, tuple(networks.values()))
RECURSIVE ConcatVersions(_)
ConcatVersions(nets) ==
  IF Len(nets) = 0 THEN <<>> ELSE nets[1][2] \o ConcatVersions(Tail(nets))

ValidationRequest_networks(req) == ConcatVersions(req.currency.networks)

\* x in seq
Contains(seq, x) == \E k \in 1..Len(seq) : seq[k] = x

(***************************************************************************)
(* Base58CheckValidator                                                    *)
(***************************************************************************)
\* 25 > len(address) > 35
LengthGateRejects(n) == 25 > n /\ n > 35

\* abytes[:-4] and abytes[-4:]
AllButLast4(b) == SubSeq(b, 1, Len(b) - 4)
Last4(b) == IF Len(b) <= 4 THEN b ELSE SubSeq(b, Len(b) - 3, Len(b))

\* sha256(sha256(data).digest()).digest()[:4]
Checksum(data) == SubSeq(sha256(sha256(data)), 1, 4)

\* validate() as it would be without the comparison of the checksum
ValidateDecodedUnchecked(req, charset, abytes) ==
  IF Len(abytes) = 0 THEN Raise("IndexError")
  ELSE IF Len(req.currency.networks) = 0 THEN Raise("TypeError")
  ELSE IF ~Contains(ValidationRequest_networks(req), abytes[1]) THEN Return(FALSE)
  ELSE Return(req.address = b58encode(abytes, charset))

\* validate() from the version-byte test on, abytes being the decoded address
ValidateDecoded(req, charset, abytes) ==
  IF Len(abytes) = 0 THEN Raise("IndexError")                      \* abytes[0]
  ELSE IF Len(req.currency.networks) = 0 THEN Raise("TypeError")   \* reduce() of nothing
  ELSE IF ~Contains(ValidationRequest_networks(req), abytes[1]) THEN Return(FALSE)
  ELSE IF Last4(abytes) # Checksum(AllButLast4(abytes)) THEN Return(FALSE)
  ELSE Return(req.address = b58encode(abytes, charset))

\* validate() from the decoding on, dec being what b58decode gave
ValidateDecoding(req, charset, dec) ==
  IF ~dec.ok THEN Raise(dec.error) ELSE ValidateDecoded(req, charset, dec.bytes)

Base58CheckValidator_validate(req) ==
  IF LengthGateRejects(Len(req.address)) THEN Return(FALSE)
  ELSE ValidateDecoding(req, ValidationRequest_extras(req),
                        b58decode(req.address, ValidationRequest_extras(req)))

\* network as it would be if it returned the first label of the mapping
ScanFirstLabel(nets, nbyte) == IF Len(nets) = 0 THEN "None" ELSE nets[1][1]

\* for name, networks in currency.networks.items(): if nbyte in networks:
\* return name -- the loop falling through returns None
RECURSIVE ScanNetworks(_, _)
ScanNetworks(nets, nbyte) ==
  IF Len(nets) = 0 THEN "None"
  ELSE IF Contains(nets[1][2], nbyte) THEN nets[1][1]
  ELSE ScanNetworks(Tail(nets), nbyte)

\* network from the decoding on
NetworkOfDecoding(req, dec) ==
  IF ~dec.ok THEN Raise(dec.error)
  ELSE IF Len(dec.bytes) = 0 THEN Raise("IndexError")              \* abytes[0]
  ELSE Return(ScanNetworks(req.currency.networks, dec.bytes[1]))

Base58CheckValidator_network(req) ==
  NetworkOfDecoding(req, b58decode(req.address, ValidationRequest_extras(req)))

(***************************************************************************)
(* EthereumValidator                                                       *)
(***************************************************************************)
\* the patterns as they would be with the lowercase one alone
LowerOnlyPatterns == <<LowerHex>>

\* "^(0x)?[0-9a-f]{40}$" and "^(0x)?[0-9A-F]{40}$": the character class of each
non_checksummed_patterns == <<LowerHex, UpperHex>>

\* [class]{40}$: 40 characters of the class, then the end of the string or a
\* final "\n"
MatchBody(s, class) ==
  /\ Len(s) \in {40, 41}
  /\ \A k \in 1..40 : s[k] \in class
  /\ Len(s) = 41 => s[41] = 10

\* pat.match(address), with the optional "0x" taken or not
PatternMatch(class, s) ==
  \/ MatchBody(s, class)
  \/ Len(s) >= 2 /\ s[1] = 48 /\ s[2] = 120 /\ MatchBody(SubSeq(s, 3, Len(s)), class)

\* the loop over range(0, len(addr)); i is the 1-based position
RECURSIVE ChecksumLoop(_, _, _)
ChecksumLoop(addr, addr_hash, i) ==
  IF i > Len(addr) THEN Return(TRUE)
  ELSE IF i > Len(addr_hash) THEN Raise("IndexError")
  ELSE IF \/ HexValue(addr_hash[i]) > 7 /\ UpperChar(addr[i]) # addr[i]
          \/ HexValue(addr_hash[i]) <= 7 /\ LowerChar(addr[i]) # addr[i]
       THEN Return(FALSE)
  ELSE ChecksumLoop(addr, addr_hash, i + 1)

\* bytes.decode(): strict UTF-8.  b[i] is a continuation byte in lo..hi
Utf8Continuation(b, i, lo, hi) == i <= Len(b) /\ b[i] \in lo..hi

\* The code points of b from position i on, after those of acc; ok is FALSE
\* where the bytes are not UTF-8 (UnicodeDecodeError)
RECURSIVE Utf8Chars(_, _, _)
Utf8Chars(b, i, acc) ==
  IF i > Len(b) THEN [ok |-> TRUE, chars |-> acc]
  ELSE IF b[i] < 128 THEN Utf8Chars(b, i + 1, Append(acc, b[i]))
  ELSE IF b[i] \in 194..223 /\ Utf8Continuation(b, i + 1, 128, 191)
       THEN Utf8Chars(b, i + 2, Append(acc, (b[i] - 192) * 64 + (b[i + 1] - 128)))
  ELSE IF /\ b[i] \in 224..239
          /\ Utf8Continuation(b, i + 1, IF b[i] = 224 THEN 160 ELSE 128,
                               IF b[i] = 237 THEN 159 ELSE 191)
          /\ Utf8Continuation(b, i + 2, 128, 191)
       THEN Utf8Chars(b, i + 3, Append(acc, (b[i] - 224) * 4096 + (b[i + 1] - 128) * 64
                                              + (b[i + 2] - 128)))
  ELSE IF /\ b[i] \in 240..244
          /\ Utf8Continuation(b, i + 1, IF b[i] = 240 THEN 144 ELSE 128,
                               IF b[i] = 244 THEN 143 ELSE 191)
          /\ Utf8Continuation(b, i + 2, 128, 191)
          /\ Utf8Continuation(b, i + 3, 128, 191)
       THEN Utf8Chars(b, i + 4, Append(acc, (b[i] - 240) * 262144 + (b[i + 1] - 128) * 4096
                                              + (b[i + 2] - 128) * 64 + (b[i + 3] - 128)))
  ELSE [ok |-> FALSE, chars |-> acc]

Utf8Decode(b) == Utf8Chars(b, 1, <<>>)

\* validate() from the hash on, low being addr.lower(): encode('ascii')
\* raises on a character outside ASCII
EncodedPath(addr, low) ==
  IF \E k \in 1..Len(low) : low[k] > 127 THEN Raise("UnicodeEncodeError")
  ELSE ChecksumLoop(addr, HexDigest(keccak_256(low)), 1)

\* validate() after the patterns, addr being address.lstrip('0x')
ChecksumPath(addr) == EncodedPath(addr, Lower(addr))

\* validate() on the decoded text
ValidateText(address) ==
  IF \E p \in 1..Len(non_checksummed_patterns) :
       PatternMatch(non_checksummed_patterns[p], address)
  THEN Return(TRUE)
  ELSE ChecksumPath(LStripChars(address, {48, 120}))

\* validate(), dec being what self.request.address.decode() gave
ValidateDecodedText(dec) ==
  IF ~dec.ok THEN Raise("UnicodeDecodeError") ELSE ValidateText(dec.chars)

EthereumValidator_validate(req) == ValidateDecodedText(Utf8Decode(req.address))

EthereumValidator_network(req) == Return("both")

(***************************************************************************)
(* Validators (the registry) and ValidatorMeta                             *)
(***************************************************************************)
\* A validator class: its identity, its "name" attribute ("None" when unset)
\* and the built-in validator whose validate/network it inherits.
NoClass == [id |-> "None", name |-> "None", impl |-> "None"]
ValidatorBase == [id |-> "ValidatorBase", name |-> "None", impl |-> "None"]
Base58CheckValidator ==
  [id |-> "Base58CheckValidator", name |-> "Base58Check", impl |-> "Base58Check"]
EthereumValidator ==
  [id |-> "EthereumValidator", name |-> "Ethereum", impl |-> "Ethereum"]

\* bool(new.name): None and the empty string are falsy
Truthy(name) == name \notin {"None", ""}

\* new.name and new.name not in Validators.validators
ShouldRegister(reg, cls) == Truthy(cls.name) /\ cls.name \notin DOMAIN reg

\* Validators.validators[new.name] = new
Insert(reg, cls) ==
  [n \in DOMAIN reg \cup {cls.name} |-> IF n = cls.name THEN cls ELSE reg[n]]

\* __new__ as it would be without the membership test
RegisterOverwriting(reg, cls) == IF Truthy(cls.name) THEN Insert(reg, cls) ELSE reg

\* ValidatorMeta.__new__, run to completion
Register(reg, cls) == IF ShouldRegister(reg, cls) THEN Insert(reg, cls) ELSE reg

\* Validators.get(key, default=None)
Validators_get(reg, key) == IF key \in DOMAIN reg THEN reg[key] ELSE NoClass

\* Validators.__contains__
Validators_contains(reg, key) == key \in DOMAIN reg

\* The registry once the module is imported: the three class statements in order
ModuleValidators ==
  Register(Register(Register(<<>>, ValidatorBase), Base58CheckValidator), EthereumValidator)

(***************************************************************************)
(* The currency catalog (coinaddr.currency, an external collaborator)      *)
(***************************************************************************)
NoCurrency ==
  [name |-> "None", ticker |-> "None", validator |-> "None", charset |-> <<>>,
   networks |-> <<>>]

Bitcoin ==
  [name |-> "bitcoin", ticker |-> "btc", validator |-> "Base58Check", charset |-> <<>>,
   networks |-> << <<"main", <<0, 5>> >>, <<"test", <<111, 196>> >> >>]

Ripple ==
  [name |-> "ripple", ticker |-> "xrp", validator |-> "Base58Check",
   charset |-> RIPPLE_CHARSET, networks |-> << <<"both", <<0, 5>> >> >>]

Ethereum ==
  [name |-> "ethereum", ticker |-> "eth", validator |-> "Ethereum", charset |-> <<>>,
   networks |-> <<>>]

\* A currency added to the catalog at run time
NewCoin(validatorName) ==
  [name |-> "newcoin", ticker |-> "new", validator |-> validatorName, charset |-> <<>>,
   networks |-> << <<"main", <<0, 5>> >>, <<"test", <<111, 196>> >> >>]

Catalog == {Bitcoin, Ripple, Ethereum}

\* Currencies.get(key): by name or by ticker, None when there is none
Currencies_get(cat, key) ==
  IF \E c \in cat : c.name = key \/ c.ticker = key
  THEN CHOOSE c \in cat : c.name = key \/ c.ticker = key
  ELSE NoCurrency

(***************************************************************************)
(* ValidationRequest, ValidationRequest.execute, ValidationResult and      *)
(* validate().  An address argument is [type, chars]: a str or a bytes     *)
(* object and the code points / byte values it holds.                      *)
(***************************************************************************)
\* converter: a if isinstance(a, bytes) else a.encode('ascii')
AddressConverter(a) ==
  IF a.type = "bytes" THEN Return(a.chars)
  ELSE IF \E k \in 1..Len(a.chars) : a.chars[k] > 127 THEN Raise("UnicodeEncodeError")
  ELSE Return(a.chars)

\* the attrs __init__: both converters, then the instance_of validators
BuildRequest(c, conv) ==
  IF conv.kind = "raise" THEN conv
  ELSE IF c = NoCurrency THEN Raise("TypeError")           \* instance_of(Currency)
  ELSE Return([currency |-> c, address |-> conv.value])

ValidationRequest(cur, a, cat) == BuildRequest(Currencies_get(cat, cur), AddressConverter(a))

\* validator.validate() of the class the registry returned
ClassValidate(cls, req) ==
  IF cls.impl = "Base58Check" THEN Base58CheckValidator_validate(req)
  ELSE EthereumValidator_validate(req)

\* validator.network
ClassNetwork(cls, req) ==
  IF cls.impl = "Base58Check" THEN Base58CheckValidator_network(req)
  ELSE EthereumValidator_network(req)

\* ValidationResult(...): attrs checks every field's type; network must be a str
ValidationResult(req, valid, network) ==
  IF network = "None" THEN Raise("TypeError")
  ELSE Return([name |-> req.currency.name, ticker |-> req.currency.ticker,
               address |-> req.address, valid |-> valid, network |-> network])

\* the keyword arguments in order: valid=validator.validate(), then
\* network=validator.network, then the constructor
ResultOf(req, valid, network) ==
  IF valid.kind = "raise" THEN valid
  ELSE IF network.kind = "raise" THEN network
  ELSE ValidationResult(req, valid.value, network.value)

\* execute() as it would be if an unregistered algorithm gave an invalid result
ExecuteLenient(req, cls) ==
  IF cls = NoClass THEN ValidationResult(req, FALSE, "")
  ELSE ResultOf(req, ClassValidate(cls, req), ClassNetwork(cls, req))

\* execute(), cls being what Validators.get returned
ExecuteWith(req, cls) ==
  IF cls = NoClass THEN Raise("TypeError")                 \* None(self)
  ELSE ResultOf(req, ClassValidate(cls, req), ClassNetwork(cls, req))

ValidationRequest_execute(req, reg) ==
  ExecuteWith(req, Validators_get(reg, req.currency.validator))

\* validate(currency, address), built being the constructed request
ExecuteBuilt(built, reg) ==
  IF built.kind = "raise" THEN built ELSE ValidationRequest_execute(built.value, reg)

\* validate(currency, address): the entrypoint
validate(cur, a, reg, cat) == ExecuteBuilt(ValidationRequest(cur, a, cat), reg)

(***************************************************************************)
(* Bounds                                                                  *)
(***************************************************************************)
MaxClasses == 2     \* class statements run after the module is imported
MaxThreads == 2     \* threads running a class statement concurrently
MaxFill == 0        \* payload fill patterns of the Base58Check inputs
MaxSeed == 2        \* 40-digit seeds of the Ethereum inputs
MaxRaw == 2         \* length of the free-form Ethereum inputs

(***************************************************************************)
(* Idle values of the state                                                *)
(***************************************************************************)
NoResult == [call |-> NoOutcome, valid |-> NoOutcome, network |-> NoOutcome]
NoRequest == [currency |-> NoCurrency, address |-> <<>>]
NoInput ==
  [form |-> "none", key |-> "", type |-> "bytes", ref |-> <<>>, index |-> 0,
   prefix |-> FALSE]
AlgorithmNames == {"Base58Check", "Ethereum", "Custom", ""}
NothingSeen == [n \in AlgorithmNames |-> NoClass]

\* The class the k-th class statement run after the import creates
UserClass(k, name, impl) == [id |-> "User" \o ToString(k), name |-> name, impl |-> impl]
ClassNames == {"None", "", "Base58Check", "Custom"}
ClassImpls == {"Base58Check", "Ethereum"}

(***************************************************************************)
(* Spec: class statements run one after another, currencies are added to   *)
(* the catalog, and validate(currency, address) is called                  *)
(***************************************************************************)
\* The arguments validate() is called with
CurrencyKeys == {"btc", "ripple", "eth", "newcoin", "xyz_unknown"}
CallAddresses ==
  { [type |-> "bytes", chars |-> <<>>],                              \* b''
    [type |-> "bytes", chars |-> <<50>>],                            \* b'2'
    [type |-> "bytes", chars |-> <<48>>],                            \* b'0'
    [type |-> "bytes", chars |-> <<49, 87, 104, 52, 98, 104>>],      \* b'1Wh4bh'
    [type |-> "str", chars |-> <<49, 87, 104, 52, 98, 106>>],        \* '1Wh4bj'
    [type |-> "str", chars |-> <<233>>],                             \* 'e' acute
    [type |-> "bytes", chars |-> <<226, 132, 170>>] }                \* U+212A in UTF-8

Init ==
  /\ validators = ModuleValidators
  /\ currencies = Catalog
  /\ threads = <<>>
  /\ seen = NothingSeen
  /\ pc = "idle"
  /\ request = NoRequest
  /\ result = NoResult
  /\ input = NoInput

\* The number of class statements run so far
Defined == IF Len(threads) = 0 THEN 0 ELSE threads[Len(threads)].count

\* class <User>(...): name = <name> -- ValidatorMeta.__new__ as one step
DefineClass(name, impl) ==
  /\ pc = "idle"
  /\ Defined < MaxClasses
  /\ validators' = Register(validators, UserClass(Defined + 1, name, impl))
  /\ threads' = <<[cls |-> UserClass(Defined + 1, name, impl), pc |-> "done",
                   count |-> Defined + 1]>>
  /\ UNCHANGED <<currencies, seen, pc, request, result, input>>

\* Currency('newcoin', validator=<name>): the catalog gains a currency
DefineCurrency(validatorName) ==
  /\ pc = "idle"
  /\ Currencies_get(currencies, "newcoin") = NoCurrency
  /\ currencies' = currencies \cup {NewCoin(validatorName)}
  /\ UNCHANGED <<validators, threads, seen, pc, request, result, input>>

\* The request a call constructs, when it constructs one
RequestBuilt(built) == IF built.kind = "return" THEN built.value ELSE NoRequest

\* validate(key, a), from the call to its return or its exception
Call(key, a) ==
  /\ pc = "idle"
  /\ input' = [NoInput EXCEPT !.form = "call", !.key = key, !.type = a.type,
                              !.ref = a.chars]
  /\ request' = RequestBuilt(ValidationRequest(key, a, currencies))
  /\ result' = [NoResult EXCEPT !.call = validate(key, a, validators, currencies)]
  /\ pc' = "done"
  /\ UNCHANGED <<validators, currencies, threads, seen>>

\* The caller drops the request and its result
Discard ==
  /\ pc = "done"
  /\ pc' = "idle"
  /\ request' = NoRequest
  /\ result' = NoResult
  /\ input' = NoInput
  /\ UNCHANGED <<validators, currencies, threads, seen>>

Next ==
  \/ \E name \in ClassNames, impl \in ClassImpls : DefineClass(name, impl)
  \/ DefineCurrency("Custom")
  \/ \E key \in CurrencyKeys, a \in CallAddresses : Call(key, a)
  \/ Discard

Spec == Init /\ [][Next]_vars

(***************************************************************************)
(* SpecConc: threads run class statements concurrently.  __new__ tests the *)
(* membership and then stores, two steps another thread can come between;  *)
(* lookups of the registry run in between as well.                         *)
(***************************************************************************)
\* A thread starts a class statement: the class object exists, __new__ is
\* about to test the membership
Start(name, impl) ==
  /\ Len(threads) < MaxThreads
  /\ threads' = Append(threads, [cls |-> UserClass(Len(threads) + 1, name, impl),
                                 pc |-> "check", count |-> Len(threads) + 1])
  /\ UNCHANGED <<validators, currencies, seen, pc, request, result, input>>

\* if new.name and new.name not in Validators.validators
Check(t) ==
  /\ threads[t].pc = "check"
  /\ threads' = [threads EXCEPT ![t].pc =
                   IF ShouldRegister(validators, threads[t].cls) THEN "insert" ELSE "done"]
  /\ UNCHANGED <<validators, currencies, seen, pc, request, result, input>>

\* Validators.validators[new.name] = new
Write(t) ==
  /\ threads[t].pc = "insert"
  /\ validators' = Insert(validators, threads[t].cls)
  /\ threads' = [threads EXCEPT ![t].pc = "done"]
  /\ UNCHANGED <<currencies, seen, pc, request, result, input>>

\* Validators.get(n) by some thread; the first class a lookup of n returned
\* is remembered
Lookup(n) ==
  /\ seen[n] = NoClass
  /\ Validators_get(validators, n) # NoClass
  /\ seen' = [seen EXCEPT ![n] = Validators_get(validators, n)]
  /\ UNCHANGED <<validators, currencies, threads, pc, request, result, input>>

NextConc ==
  \/ \E name \in ClassNames, impl \in ClassImpls : Start(name, impl)
  \/ \E t \in 1..Len(threads) : Check(t)
  \/ \E t \in 1..Len(threads) : Write(t)
  \/ \E n \in AlgorithmNames : Lookup(n)

SpecConc == Init /\ [][NextConc]_vars

(***************************************************************************)
(* SpecB58: Base58CheckValidator on addresses built from a version byte, a *)
(* payload and the double-SHA256 checksum, encoded as they are or with one *)
(* decoded byte changed                                                    *)
(***************************************************************************)
Payload(n, fill) == SubSeq([i \in 1..n |-> (11 * i + 7 * fill) % 256], 1, n)

\* body followed by its four checksum bytes
Frame(body) == body \o Checksum(body)

\* b with the byte at position i changed
MutateByte(b, i) == [b EXCEPT ![i] = (b[i] + 1) % 256]

InitB58 ==
  /\ validators = ModuleValidators
  /\ currencies = Catalog
  /\ threads = <<>>
  /\ seen = NothingSeen
  /\ pc = "seed"
  /\ result = NoResult
  /\ \E c \in {Bitcoin, Ripple}, v \in {0, 196, 1}, n \in {0, 14, 20}, f \in 0..MaxFill :
       /\ request = [currency |-> c, address |-> <<>>]
       /\ input = [NoInput EXCEPT !.form = "seed", !.key = c.name,
                                  !.ref = Frame(<<v>> \o Payload(n, f))]

\* The address is the encoding of the framed bytes
B58PickWellFormed ==
  /\ pc = "seed"
  /\ request' = [request EXCEPT !.address =
                   b58encode(input.ref, ValidationRequest_extras(request))]
  /\ input' = [input EXCEPT !.form = "wellformed"]
  /\ pc' = "picked"
  /\ UNCHANGED <<validators, currencies, threads, seen, result>>

\* The address is the encoding of the framed bytes with byte i changed
B58PickMutated(i) ==
  /\ pc = "seed"
  /\ request' = [request EXCEPT !.address =
                   b58encode(MutateByte(input.ref, i), ValidationRequest_extras(request))]
  /\ input' = [input EXCEPT !.form = "mutated", !.index = i]
  /\ pc' = "picked"
  /\ UNCHANGED <<validators, currencies, threads, seen, result>>

\* validator.validate() and validator.network on the request
B58Validate ==
  /\ pc = "picked"
  /\ result' = [NoResult EXCEPT !.valid = Base58CheckValidator_validate(request),
                                !.network = Base58CheckValidator_network(request)]
  /\ pc' = "done"
  /\ UNCHANGED <<validators, currencies, threads, seen, request, input>>

NextB58 ==
  \/ B58PickWellFormed
  \/ \E i \in 1..Len(input.ref) : B58PickMutated(i)
  \/ B58Validate

SpecB58 == InitB58 /\ [][NextB58]_vars

(***************************************************************************)
(* SpecEth: EthereumValidator on the renderings of 40-digit addresses      *)
(* (lowercase, uppercase, EIP-55, EIP-55 with the case of one letter       *)
(* flipped, each with or without "0x") and on free-form strings            *)
(***************************************************************************)
\* The k-th 40-digit address: its i-th hex digit is (k + (i - 1)(2k + 1)) mod 16
EthSeed(k) == SubSeq([i \in 1..40 |-> HexChar((k + (i - 1) * (2 * k + 1)) % 16)], 1, 40)

\* The mixed-case rendering of the lowercase digits l under the hex digest h
Render(l, h) ==
  SubSeq([i \in 1..Len(l) |-> IF HexValue(h[i]) > 7 THEN UpperChar(l[i]) ELSE l[i]],
         1, Len(l))

\* EIP-55: a letter is uppercase exactly when the hash digit at its position
\* is greater than 7
EIP55(l) == Render(l, HexDigest(keccak_256(l)))

Upper(s) == SubSeq([i \in 1..Len(s) |-> UpperChar(s[i])], 1, Len(s))
FlipCase(s, i) == [s EXCEPT ![i] = IF s[i] \in 65..90 THEN s[i] + 32 ELSE s[i] - 32]
WithPrefix(prefix, s) == IF prefix THEN <<48, 120>> \o s ELSE s
Repeat(c, n) == SubSeq([i \in 1..n |-> c], 1, n)

\* Free-form strings: the short ones over '0', 'x', '1', 'a', 'G'; digit
\* strings of other lengths; 40 digits with a final line feed; and addresses
\* outside ASCII: U+212A alone, after "0x" and three times, U+00E9, and a
\* byte that is not UTF-8
RawAddresses ==
  UNION {[1..n -> {48, 120, 49, 97, 71}] : n \in 0..MaxRaw}
    \cup {Repeat(49, n) : n \in {39, 41, 64, 65}}
    \cup {Repeat(97, 40) \o <<10>>}
    \cup { <<226, 132, 170>>, <<48, 120, 226, 132, 170>>,
           <<226, 132, 170, 226, 132, 170, 226, 132, 170>>, <<195, 169>>, <<233>> }

InitEth ==
  /\ validators = ModuleValidators
  /\ currencies = Catalog
  /\ threads = <<>>
  /\ seen = NothingSeen
  /\ result = NoResult
  /\ \/ /\ pc = "seed"
        /\ request = [currency |-> Ethereum, address |-> <<>>]
        /\ \E k \in 0..MaxSeed :
             input = [NoInput EXCEPT !.form = "seed", !.key = "ethereum",
                                     !.ref = EIP55(EthSeed(k))]
     \/ /\ pc = "picked"
        /\ input = [NoInput EXCEPT !.form = "raw", !.key = "ethereum"]
        /\ \E s \in RawAddresses : request = [currency |-> Ethereum, address |-> s]

EthPick(form, prefix, s, i) ==
  /\ pc = "seed"
  /\ request' = [request EXCEPT !.address = WithPrefix(prefix, s)]
  /\ input' = [input EXCEPT !.form = form, !.prefix = prefix, !.index = i]
  /\ pc' = "picked"
  /\ UNCHANGED <<validators, currencies, threads, seen, result>>

EthPickLower(prefix) == EthPick("lower", prefix, Lower(input.ref), 0)
EthPickUpper(prefix) == EthPick("upper", prefix, Upper(input.ref), 0)
EthPickChecksum(prefix) == EthPick("checksum", prefix, input.ref, 0)
EthPickFlipped(prefix, i) ==
  /\ input.ref[i] \in 65..90 \cup 97..122
  /\ EthPick("flipped", prefix, FlipCase(input.ref, i), i)

\* validator.validate() on the request
EthValidate ==
  /\ pc = "picked"
  /\ result' = [NoResult EXCEPT !.valid = EthereumValidator_validate(request),
                                !.network = EthereumValidator_network(request)]
  /\ pc' = "done"
  /\ UNCHANGED <<validators, currencies, threads, seen, request, input>>

NextEth ==
  \/ \E prefix \in BOOLEAN : EthPickLower(prefix)
  \/ \E prefix \in BOOLEAN : EthPickUpper(prefix)
  \/ \E prefix \in BOOLEAN : EthPickChecksum(prefix)
  \/ \E prefix \in BOOLEAN, i \in 1..Len(input.ref) : EthPickFlipped(prefix, i)
  \/ EthValidate

SpecEth == InitEth /\ [][NextEth]_vars

(***************************************************************************)
(* Properties                                                              *)
(***************************************************************************)
\* What the address under validation decodes to
DecodedAddress == b58decode(request.address, ValidationRequest_extras(request))

\* The last four bytes of b are the first four of the double SHA-256 of the rest
ChecksumHolds(b) ==
  Len(b) >= 4 /\ Last4(b) = SubSeq(sha256(sha256(SubSeq(b, 1, Len(b) - 4))), 1, 4)

\* The version bytes of currency c, all networks together
VersionUnion(c) ==
  UNION { {c.networks[j][2][k] : k \in 1..Len(c.networks[j][2])} :
          j \in 1..Len(c.networks) }

\* The labels of c, in mapping order, whose version bytes contain v
LabelsOf(c, v) == {j \in 1..Len(c.networks) : Contains(c.networks[j][2], v)}
FirstLabel(c, v) ==
  c.networks[CHOOSE j \in LabelsOf(c, v) : \A m \in LabelsOf(c, v) : j <= m][1]

\* s without its optional "0x"
Unprefixed(s) ==
  IF Len(s) >= 2 /\ s[1] = 48 /\ s[2] = 120 THEN SubSeq(s, 3, Len(s)) ELSE s
AllIn(s, class) == \A k \in 1..Len(s) : s[k] \in class

\* 40 hex digits whose letters are all lowercase or all uppercase
UniformHex40(s) == Len(s) = 40 /\ (AllIn(s, LowerHex) \/ AllIn(s, UpperHex))
\* 40 hex digits
Hex40(s) == Len(s) = 40 /\ AllIn(s, LowerHex \cup UpperHex)

\* C1: Base58CheckValidator.validate returns false for every address whose
\* length is below 25 or is 35 or more, and the length gate lets an address
\* of length exactly 25 through.
C1_LengthGate ==
  pc = "done" =>
    /\ (Len(request.address) < 25 \/ Len(request.address) >= 35)
         => result.valid = Return(FALSE)
    /\ Len(request.address) = 25 => ~LengthGateRejects(Len(request.address))

\* C2: for a currency of the catalog whose validator is registered and an
\* ASCII address, validate(currency, address) returns a ValidationResult and
\* never raises.
C2_NeverRaises ==
  ( /\ pc = "done"
    /\ input.form = "call"
    /\ AllIn(input.ref, 0..127)
    /\ Currencies_get(currencies, input.key) # NoCurrency
    /\ Currencies_get(currencies, input.key).validator \in DOMAIN validators )
  => result.call.kind = "return"

\* C3: a class statement never removes or replaces an entry of the registry,
\* adds at most the entry of its own name, and a (non-empty) name that was
\* absent gets the class just defined: the entry of a name is its first
\* registration.
C3_Step ==
  /\ \A n \in DOMAIN validators : n \in DOMAIN validators' /\ validators'[n] = validators[n]
  /\ threads' # threads =>
       /\ DOMAIN validators' \subseteq DOMAIN validators \cup {threads'[1].cls.name}
       /\ (Truthy(threads'[1].cls.name) /\ threads'[1].cls.name \notin DOMAIN validators)
            => validators'[threads'[1].cls.name] = threads'[1].cls
C3_FirstRegistrationWins == [][C3_Step]_vars

\* A class statement under a name already registered has run and the entry
\* is still the earlier class
C3_Witness ==
  /\ Len(threads) > 0
  /\ threads[1].cls.name \in DOMAIN validators
  /\ validators[threads[1].cls.name] # threads[1].cls

\* C4: EthereumValidator.validate returns true for every address of 40 hex
\* digits whose letters are all lowercase or all uppercase, with or without
\* a leading "0x".
C4_UniformCaseValid ==
  (pc = "done" /\ UniformHex40(Unprefixed(request.address)))
    => result.valid = Return(TRUE)

\* An all-uppercase address with "0x" was validated
C4_Witness ==
  /\ pc = "done"
  /\ input.form = "upper"
  /\ input.prefix
  /\ UniformHex40(Unprefixed(request.address))
  /\ result.valid = Return(TRUE)

\* C5: validate returns true on the EIP-55 rendering of every 40-digit
\* address and false on that rendering with the case of one letter flipped.
C5_Eip55 ==
  pc = "done" =>
    /\ input.form = "checksum" => result.valid = Return(TRUE)
    /\ input.form = "flipped" => result.valid = Return(FALSE)

\* C6: Base58CheckValidator.validate returns true only if the last four
\* decoded bytes are the first four bytes of the double SHA-256 of the other
\* decoded bytes, and it returns false once one byte of a valid decoded
\* address is changed.
C6_ChecksumDecides ==
  pc = "done" =>
    /\ result.valid = Return(TRUE)
         => DecodedAddress.ok /\ ChecksumHolds(DecodedAddress.bytes)
    /\ input.form = "mutated" => result.valid = Return(FALSE)

\* A payload byte was changed under a known version byte, and validate
\* returned false
C6_Witness ==
  /\ pc = "done"
  /\ input.form = "mutated"
  /\ input.index > 1
  /\ Contains(ValidationRequest_networks(request), input.ref[1])
  /\ ~ChecksumHolds(DecodedAddress.bytes)
  /\ result.valid = Return(FALSE)

\* C7: execute on a request whose currency names an algorithm that is not
\* in the registry raises and gives no ValidationResult.
C7_UnregisteredRaises ==
  ( /\ pc = "done"
    /\ request.currency # NoCurrency
    /\ request.currency.validator \notin DOMAIN validators )
  => result.call.kind = "raise"

\* validate() was called for a currency whose algorithm is not registered
C7_Witness ==
  /\ pc = "done"
  /\ request.currency.validator = "Custom"
  /\ ~Validators_contains(validators, "Custom")
  /\ result.call.kind = "raise"

\* C8: when validate() returns true, the first decoded byte is one of the
\* currency's version bytes, and network returns the first label, in mapping
\* order, whose version bytes contain it.
C8_NetworkOfValid ==
  (pc = "done" /\ result.valid = Return(TRUE)) =>
    /\ DecodedAddress.bytes[1] \in VersionUnion(request.currency)
    /\ result.network.kind = "return"
    /\ result.network.value = FirstLabel(request.currency, DecodedAddress.bytes[1])

\* A valid testnet address was given the second label of the mapping
C8_Witness ==
  /\ pc = "done"
  /\ result.valid = Return(TRUE)
  /\ result.network.kind = "return"
  /\ result.network.value = "test"

\* C9: once a lookup of a name has returned a class, every later lookup of
\* that name returns the same class, under every interleaving of the
\* threads that register.
C9_LookupStable ==
  \A n \in AlgorithmNames : seen[n] # NoClass => Validators_get(validators, n) = seen[n]

\* C10: EthereumValidator.validate returns true only for an optional "0x"
\* followed by exactly 40 hex digits.
C10_OnlyWellFormed ==
  (pc = "done" /\ result.valid = Return(TRUE)) => Hex40(Unprefixed(request.address))
====
